---- MODULE Spec2Model ----
(***************************************************************************)
(* Model of magic_dictionary_builder.py: the DictionaryBuilder pipeline    *)
(* (run_gau, run_urlfinder, extract_paths, save_dictionary,                *)
(* build_dictionary) and main.  Strings are sequences of one-character     *)
(* strings, so that splitting, stripping, prefix tests, lower-casing and   *)
(* codepoint ordering are computed as the Python code computes them.       *)
(***************************************************************************)
EXTENDS Integers, Sequences, FiniteSets, Bags, TLC

(***************************************************************************)
(* Bounds of the model.                                                    *)
(***************************************************************************)
\* lines a discovery tool prints on stdout
MaxLines == 2
\* URLs in the list handed to extract_paths in SpecExtract
MaxUrls == 2
\* entries of the list handed to save_dictionary in SpecSave
MaxWords == 3

(***************************************************************************)
(* Characters and strings.                                                 *)
(***************************************************************************)
Upper == <<"A","B","C","D","E","F","G","H","I","J","K","L","M",
           "N","O","P","Q","R","S","T","U","V","W","X","Y","Z">>
LowerCase == <<"a","b","c","d","e","f","g","h","i","j","k","l","m",
               "n","o","p","q","r","s","t","u","v","w","x","y","z">>
Digits == <<"0","1","2","3","4","5","6","7","8","9">>

Punctuation ==
    ("\t" :> 9) @@ ("\n" :> 10) @@ ("\r" :> 13) @@ (" " :> 32) @@ ("#" :> 35)
    @@ ("-" :> 45) @@ ("." :> 46) @@ ("/" :> 47) @@ (":" :> 58) @@ (";" :> 59)
    @@ ("=" :> 61) @@ ("?" :> 63) @@ ("[" :> 91) @@ ("]" :> 93) @@ ("_" :> 95)

\* the letters of an alphabet
Range26(letters) == {letters[i] : i \in 1..26}

\* the codepoint of each character the model uses
CodepointOf ==
    Punctuation
    @@ [c \in Range26(Upper) |-> 64 + (CHOOSE i \in 1..26 : Upper[i] = c)]
    @@ [c \in Range26(LowerCase) |-> 96 + (CHOOSE i \in 1..26 : LowerCase[i] = c)]
    @@ [c \in {Digits[i] : i \in 1..10} |-> 47 + (CHOOSE i \in 1..10 : Digits[i] = c)]

\* ord(c)
Ord(c) == CodepointOf[c]

\* the lower-case form of each upper-case letter
LowerOf == [c \in Range26(Upper) |-> LowerCase[CHOOSE i \in 1..26 : Upper[i] = c]]

\* str.lower() on one character
LowerChar(c) == IF c \in DOMAIN LowerOf THEN LowerOf[c] ELSE c

\* str.lower()
Lower(s) == [i \in 1..Len(s) |-> LowerChar(s[i])]

\* str.startswith(p)
StartsWith(s, p) == Len(s) >= Len(p) /\ SubSeq(s, 1, Len(p)) = p

\* c in s
Contains(s, c) == \E i \in 1..Len(s) : s[i] = c

\* s.find(c) as a 1-based index, 0 when c does not occur
Find(s, c) ==
    IF Contains(s, c)
    THEN CHOOSE i \in 1..Len(s) : s[i] = c /\ \A j \in 1..(i - 1) : s[j] # c
    ELSE 0

\* s.rfind(c) as a 1-based index, 0 when c does not occur
RFind(s, c) ==
    IF Contains(s, c)
    THEN CHOOSE i \in 1..Len(s) : s[i] = c /\ \A j \in (i + 1)..Len(s) : s[j] # c
    ELSE 0

\* s.split(sep): the pieces between separators, empty pieces included
RECURSIVE Split(_, _)
Split(s, sep) ==
    LET i == Find(s, sep)
    IN  IF i = 0
        THEN <<s>>
        ELSE <<SubSeq(s, 1, i - 1)>> \o Split(SubSeq(s, i + 1, Len(s)), sep)

Whitespace == {" ", "\t", "\n", "\r"}

\* str.strip(): leading and trailing whitespace removed
RECURSIVE LStrip(_)
LStrip(s) == IF s # <<>> /\ Head(s) \in Whitespace THEN LStrip(Tail(s)) ELSE s
RECURSIVE RStrip(_)
RStrip(s) ==
    IF s # <<>> /\ s[Len(s)] \in Whitespace
    THEN RStrip(SubSeq(s, 1, Len(s) - 1))
    ELSE s
Strip(s) == RStrip(LStrip(s))

\* the elements of a list
Range(q) == {q[i] : i \in 1..Len(q)}

\* str < str: lexicographic on codepoints, a proper prefix first
RECURSIVE StrLess(_, _)
StrLess(a, b) ==
    IF b = <<>> THEN FALSE
    ELSE IF a = <<>> THEN TRUE
    ELSE IF Ord(Head(a)) # Ord(Head(b)) THEN Ord(Head(a)) < Ord(Head(b))
    ELSE StrLess(Tail(a), Tail(b))

\* lists over S of length at most n
Lists(S, n) == UNION {[1..k -> S] : k \in 0..n}

\* "".join of a list of strings
RECURSIVE Concat(_)
Concat(q) == IF q = <<>> THEN <<>> ELSE Head(q) \o Concat(Tail(q))

(***************************************************************************)
(* DictionaryBuilder.__init__                                              *)
(***************************************************************************)
filtered_extensions ==
    { <<"j","s">>, <<"g","i","f">>, <<"j","p","g">>, <<"j","p","e","g">>,
      <<"p","n","g">>, <<"c","s","s">>, <<"t","t","f">>, <<"w","o","f","f">>,
      <<"w","o","f","f","2">>, <<"s","v","g">>, <<"p","d","f">>, <<"i","c","o">>,
      <<"w","e","b","p">>, <<"m","p","4">>, <<"m","p","3">>, <<"a","v","i">>,
      <<"m","o","v">>, <<"z","i","p">>, <<"r","a","r">>, <<"t","a","r">>,
      <<"g","z">>, <<"b","z","2">>, <<"e","x","e">>, <<"d","m","g">>,
      <<"i","s","o">>, <<"d","o","c">>, <<"d","o","c","x">>, <<"x","l","s">>,
      <<"x","l","s","x">>, <<"p","p","t">>, <<"p","p","t","x">>,
      <<"e","o","t">>, <<"s","w","f">> }

(***************************************************************************)
(* urlparse(url).path, for a url that starts with http:// or https://.     *)
(* Tabs and line breaks are dropped first.  The authority runs from after  *)
(* "//" to the first of / ? #; unbalanced square brackets in it raise      *)
(* ValueError.  The fragment is cut at the first #, the query at the first *)
(* ?, and the parameters at the first ; of the last path segment.          *)
(***************************************************************************)
\* the part of s before the first c (all of s when c does not occur)
Before(s, c) == IF Contains(s, c) THEN SubSeq(s, 1, Find(s, c) - 1) ELSE s

\* urlsplit drops every tab, carriage return and newline of the url
Clean(url) == SelectSeq(url, LAMBDA c : c \notin {"\t", "\r", "\n"})

\* the text after the scheme's "://"
AfterScheme(url) ==
    LET cleaned == Clean(url)
    IN  SubSeq(cleaned, Find(cleaned, ":") + 3, Len(cleaned))

\* index of the first of / ? # in s, Len(s) + 1 when there is none
NetlocEnd(s) ==
    IF \E i \in 1..Len(s) : s[i] \in {"/", "?", "#"}
    THEN CHOOSE i \in 1..Len(s) :
            s[i] \in {"/", "?", "#"} /\ \A j \in 1..(i - 1) : s[j] \notin {"/", "?", "#"}
    ELSE Len(s) + 1

Netloc(url) ==
    LET after == AfterScheme(url)
    IN  SubSeq(after, 1, NetlocEnd(after) - 1)

\* urlsplit raises ValueError("Invalid IPv6 URL")
UrlParseRaises(url) ==
    LET netloc == Netloc(url)
    IN  Contains(netloc, "[") # Contains(netloc, "]")

\* _splitparams: cut at the first ; after the last /
SplitParams(p) ==
    LET from == RFind(p, "/") + 1
    IN  IF \E i \in from..Len(p) : p[i] = ";"
        THEN SubSeq(p, 1, (CHOOSE i \in from..Len(p) :
                              p[i] = ";" /\ \A j \in from..(i - 1) : p[j] # ";") - 1)
        ELSE p

\* urlparse(url).path
UrlPath(url) ==
    LET after == AfterScheme(url)
        rest  == SubSeq(after, NetlocEnd(after), Len(after))
    IN  SplitParams(Before(Before(rest, "#"), "?"))

HttpPrefix == <<"h","t","t","p",":","/","/">>
HttpsPrefix == <<"h","t","t","p","s",":","/","/">>

(***************************************************************************)
(* DictionaryBuilder.extract_paths                                         *)
(***************************************************************************)
\* path_parts = [part for part in path.split('/') if part]
PathParts(path) == SelectSeq(Split(path, "/"), LAMBDA part : part # <<>>)

\* part.split('.')[-1].lower()
Extension(part) ==
    LET pieces == Split(part, ".")
    IN  Lower(pieces[Len(pieces)])

\* the first loop's decision to add a part
KeepPart(part) ==
    IF Contains(part, ".")
    THEN Extension(part) \notin filtered_extensions
    ELSE TRUE

\* the first loop over path_parts: what it adds to paths
MainLoop(path_parts) == {part \in Range(path_parts) : KeepPart(part)}

\* a plausible slip: the parent loop applies the extension filter too
ParentLoopFiltered(path_parts) ==
    {part \in Range(SubSeq(path_parts, 1, Len(path_parts) - 1)) : KeepPart(part)}

\* the second loop, over path_parts[:-1]: what it adds to paths
ParentLoop(path_parts) == Range(SubSeq(path_parts, 1, Len(path_parts) - 1))

\* the body of the for loop for one url: whether urlparse raised, and
\* what the iteration added to paths
UrlStep(url) ==
    IF url = <<>> \/ ~(StartsWith(url, HttpPrefix) \/ StartsWith(url, HttpsPrefix))
    THEN [raised |-> FALSE, added |-> {}]
    ELSE IF UrlParseRaises(url)
    THEN [raised |-> TRUE, added |-> {}]
    ELSE LET path == UrlPath(url)
             path_parts == PathParts(path)
         IN  IF path = <<>> \/ path = <<"/">>
             THEN [raised |-> FALSE, added |-> {}]
             ELSE [raised |-> FALSE,
                   added  |-> MainLoop(path_parts) \cup ParentLoop(path_parts)]

\* a plausible slip: the try wraps the whole loop, so an error ends the batch
RECURSIVE ExtractLoopAbort(_, _)
ExtractLoopAbort(urls, paths) ==
    IF urls = <<>> THEN paths
    ELSE LET step == UrlStep(Head(urls))
         IN  IF step.raised THEN paths
             ELSE ExtractLoopAbort(Tail(urls), paths \cup step.added)

\* for url in urls: ... with the except clause continuing the loop
RECURSIVE ExtractLoop(_, _)
ExtractLoop(urls, paths) ==
    IF urls = <<>> THEN paths
    ELSE ExtractLoop(Tail(urls), paths \cup UrlStep(Head(urls)).added)

extract_paths(urls) == ExtractLoop(urls, {})

(***************************************************************************)
(* DictionaryBuilder.save_dictionary                                       *)
(***************************************************************************)
\* the least string of a non-empty set
MinStr(S) == CHOOSE w \in S : \A v \in S \ {w} : StrLess(w, v)

\* a plausible slip: sorted(set(words), reverse=True)
RECURSIVE SortedDescending(_)
SortedDescending(S) ==
    IF S = {} THEN <<>>
    ELSE SortedDescending(S \ {MinStr(S)}) \o <<MinStr(S)>>

\* sorted(S) for a set of strings
RECURSIVE Sorted(_)
Sorted(S) == IF S = {} THEN <<>> ELSE <<MinStr(S)>> \o Sorted(S \ {MinStr(S)})

\* unique_words = sorted(set(words))
UniqueWords(words) == Sorted(Range(words))

\* what the loop writes: f"{word}\n" for each word
Written(unique_words) ==
    Concat([i \in 1..Len(unique_words) |-> unique_words[i] \o <<"\n">>])

\* the destination does not exist
Absent == <<"<absent>">>

\* how a call of save_dictionary can go: open() raises, a write (or the
\* flush on close) raises after n characters reached the file, or all is
\* written
SaveOutcomes(words) ==
    LET size == Len(Written(UniqueWords(words)))
    IN  {[kind |-> "ok", n |-> size], [kind |-> "open_error", n |-> 0]}
        \cup {[kind |-> "write_error", n |-> k] : k \in 0..(size - 1)}

\* save_dictionary(words, output_file): the value returned and the content
\* of output_file afterwards, old being its content before
save_dictionary(words, old, outcome) ==
    IF outcome.kind = "open_error"
    THEN [ret |-> FALSE, file |-> old]
    ELSE [ret  |-> outcome.kind = "ok",
          file |-> SubSeq(Written(UniqueWords(words)), 1, outcome.n)]

(***************************************************************************)
(* DictionaryBuilder.run_gau and run_urlfinder                             *)
(***************************************************************************)
\* [url.strip() for url in result.stdout.strip().split('\n') if url.strip()]
ParseStdout(stdout) ==
    LET lines == Split(Strip(stdout), "\n")
    IN  SelectSeq([i \in 1..Len(lines) |-> Strip(lines[i])], LAMBDA url : url # <<>>)

\* a plausible slip: the return code is not looked at
run_gau_any_code(outcome) ==
    IF outcome.kind \in {"ok", "nonzero"} THEN ParseStdout(outcome.stdout) ELSE <<>>

\* run_gau(domain): the list returned for an outcome of subprocess.run
run_gau(outcome) ==
    IF outcome.kind = "ok" THEN ParseStdout(outcome.stdout) ELSE <<>>

\* run_urlfinder(domain): the list returned for an outcome of subprocess.run
run_urlfinder(outcome) ==
    IF outcome.kind = "ok" THEN ParseStdout(outcome.stdout) ELSE <<>>

(***************************************************************************)
(* Inputs.                                                                 *)
(***************************************************************************)
Host == HttpsPrefix \o <<"a",".","c","o">>

\* https://a.co/x
UrlX == Host \o <<"/","x">>
\* https://a.co/y
UrlY == Host \o <<"/","y">>
\* https://a.co/l.png
UrlPng == Host \o <<"/","l",".","p","n","g">>
\* https://a.co/l.png/b.JS
UrlPngJs == Host \o <<"/","l",".","p","n","g","/","b",".","J","S">>

\* the URLs the discovery tools print in Spec
ToolUrls == {UrlX, UrlY, UrlPng, UrlPngJs}

\* the lines a tool's stdout is made of: URLs, a padded URL, a blank line
RawLines == ToolUrls \cup {<<" ">> \o UrlX \o <<" ">>, <<" ">>}

\* stdout with n lines, each ended by a newline
Stdouts == {Concat([i \in 1..Len(q) |-> q[i] \o <<"\n">>]) : q \in Lists(RawLines, MaxLines)}

\* how subprocess.run can end: return code 0, another return code (both
\* with whatever was printed), TimeoutExpired (when -t is given; the value
\* of the timeout is not part of the state), KeyboardInterrupt,
\* FileNotFoundError, another exception
RunOutcomes ==
    {[kind |-> k, stdout |-> o] : k \in {"ok", "nonzero"}, o \in Stdouts}
    \cup {[kind |-> k, stdout |-> <<>>] :
             k \in {"timeout", "interrupt", "notfound", "error"}}

FailureKinds == {"nonzero", "timeout", "interrupt", "notfound", "error"}

\* the URLs extract_paths is applied to in SpecExtract
ExtractUrls ==
    { Host \o <<"/","x","/","u",".","j","s","o","n">>,
      Host \o <<"/","a","s","/","l",".","P","N","G">>,
      Host \o <<"/">>,
      Host,
      HttpPrefix \o <<"a",".","c","o","/","l",".","p","n","g","/","b",".","j","s">>,
      Host \o <<"/","b",".","t","a","r",".","g","z">>,
      Host \o <<"/","y","/","c",".","j","s",".","t","x","t">>,
      <<"f","t","p",":","/","/","a",".","c","o","/","z">>,
      <<"/","/","a",".","c","o","/","s">>,
      <<>>,
      HttpPrefix \o <<"[","a","/","w","/","v">>,
      Host \o <<"/","/","x","/","/","y","/","?","q","=","/","m",".","p","n","g","#","/","f">>,
      Host \o <<"/","d",";","p","/","k",";","v">>,
      Host \o <<"/","e",".">>,
      Host \o <<"/",".","i","c","o","/","g","\t","h">> }

\* the words save_dictionary is given in SpecSave: path segments
SaveWords ==
    { <<"x">>, <<"x","y">>, <<"X">>, <<"x",".","t","x","t">>, <<"_","a">>, <<"1","0">> }

\* what the destination can hold before the run
OldFiles == {Absent, <<"o","l","d","\n","z","\n">>}

(***************************************************************************)
(* State.                                                                  *)
(***************************************************************************)
VARIABLES
    pc,              \* where the process is
    no_gau,          \* args.no_gau
    no_urlfinder,    \* args.no_urlfinder
    gau_urls,        \* build_dictionary's gau_urls
    urlfinder_urls,  \* build_dictionary's urlfinder_urls
    gau_status,      \* how run_gau's subprocess ended ("none": not run)
    urlfinder_status,\* how run_urlfinder's subprocess ended
    all_urls,        \* build_dictionary's all_urls, as the bag of its elements
    paths,           \* build_dictionary's paths
    save_status,     \* how save_dictionary went ("none": not called)
    success,         \* main's success, FALSE until build_dictionary returns
    exit_code,       \* the process exit status (-1: still running)
    file,            \* the content of the destination file
    file0,           \* the content of the destination before the run
    log,             \* the external calls made so far, in order
    arg,             \* the argument of the function applied in SpecExtract, SpecSave
    ret              \* its result

vars == <<pc, no_gau, no_urlfinder, gau_urls, urlfinder_urls,
          gau_status, urlfinder_status, all_urls, paths, save_status, success,
          exit_code, file, file0, log, arg, ret>>

buildVars == <<gau_urls, urlfinder_urls, gau_status, urlfinder_status,
               all_urls, paths, save_status, success>>

argVars == <<no_gau, no_urlfinder, file0>>

\* the locals of build_dictionary before it runs
BuildIdle ==
    /\ gau_urls = <<>> /\ urlfinder_urls = <<>>
    /\ gau_status = "none" /\ urlfinder_status = "none"
    /\ all_urls = <<>> /\ paths = {}
    /\ save_status = "none" /\ success = FALSE
    /\ exit_code = -1 /\ log = <<>>

Init ==
    /\ pc = "main"
    /\ no_gau \in BOOLEAN /\ no_urlfinder \in BOOLEAN
    /\ file0 \in OldFiles /\ file = file0
    /\ BuildIdle
    /\ arg = <<>> /\ ret = <<>>

(***************************************************************************)
(* main and build_dictionary                                               *)
(***************************************************************************)
\* main, from the parsed arguments (a domain and an output path are given,
\* --test-tools is not) to the call of build_dictionary: skipping both
\* sources is parser.error, which exits with status 2
Main ==
    /\ pc = "main"
    /\ IF no_gau /\ no_urlfinder
       THEN pc' = "done" /\ exit_code' = 2
       ELSE pc' = "gau" /\ UNCHANGED exit_code
    /\ UNCHANGED <<argVars, buildVars, file, log, arg, ret>>

\* a plausible slip: the skip flag of GAU is not looked at
GauStepAlways ==
    /\ pc = "gau"
    /\ \E o \in RunOutcomes :
          /\ gau_urls' = run_gau(o)
          /\ gau_status' = o.kind
    /\ log' = Append(log, "gau")
    /\ pc' = "urlfinder"
    /\ UNCHANGED <<argVars, urlfinder_urls, urlfinder_status, all_urls, paths,
                   save_status, success, exit_code, file, arg, ret>>

\* step 1: run_gau unless skipped
GauStep ==
    /\ pc = "gau"
    /\ IF ~no_gau
       THEN /\ \E o \in RunOutcomes :
                  /\ gau_urls' = run_gau(o)
                  /\ gau_status' = o.kind
            /\ log' = Append(log, "gau")
       ELSE UNCHANGED <<gau_urls, gau_status, log>>
    /\ pc' = "urlfinder"
    /\ UNCHANGED <<argVars, urlfinder_urls, urlfinder_status, all_urls, paths,
                   save_status, success, exit_code, file, arg, ret>>

\* step 2: run_urlfinder unless skipped
UrlfinderStep ==
    /\ pc = "urlfinder"
    /\ IF ~no_urlfinder
       THEN /\ \E o \in RunOutcomes :
                  /\ urlfinder_urls' = run_urlfinder(o)
                  /\ urlfinder_status' = o.kind
            /\ log' = Append(log, "urlfinder")
       ELSE UNCHANGED <<urlfinder_urls, urlfinder_status, log>>
    /\ pc' = "combine"
    /\ UNCHANGED <<argVars, gau_urls, gau_status, all_urls, paths,
                   save_status, success, exit_code, file, arg, ret>>

\* the orders list(set(...)) can give: every list of the set's elements
\* without repetition
RECURSIVE Orders(_)
Orders(S) ==
    IF S = {} THEN {<<>>}
    ELSE UNION {{<<u>> \o q : q \in Orders(S \ {u})} : u \in S}

\* a plausible slip: the lists are concatenated and not made a set
CombineKeepsDuplicates(a, b) == {a \o b}

\* all_urls = list(set(gau_urls + urlfinder_urls)): the lists it can be
Combine(a, b) == Orders(Range(a \o b))

\* the bag of a list's elements: the list up to its order
BagOf(q) == [u \in Range(q) |-> Cardinality({i \in 1..Len(q) : q[i] = u})]

\* the number of elements of a bag
BagSize(B) == BagCardinality(B)

\* the lists a bag stands for
ListsOf(B) ==
    IF \A u \in DOMAIN B : B[u] = 1
    THEN Orders(DOMAIN B)
    ELSE {q \in [1..BagSize(B) -> DOMAIN B] : BagOf(q) = B}

\* main after build_dictionary: sys.exit(0) or sys.exit(1)
ExitCode(ok) == IF ok THEN 0 ELSE 1

\* a plausible slip: the destination is created before the results are looked at
CombineStepTouches ==
    /\ pc = "combine"
    /\ \E merged \in Combine(gau_urls, urlfinder_urls) :
          /\ all_urls' = BagOf(merged)
          /\ IF merged = <<>>
             THEN success' = FALSE /\ exit_code' = ExitCode(FALSE) /\ pc' = "done"
             ELSE UNCHANGED <<success, exit_code>> /\ pc' = "extract"
    /\ file' = <<>>
    /\ log' = Append(log, "open")
    /\ UNCHANGED <<argVars, gau_urls, urlfinder_urls, gau_status, urlfinder_status,
                   paths, save_status, arg, ret>>

\* step 3, first half: combine the results; return False when there is none
CombineStep ==
    /\ pc = "combine"
    /\ \E merged \in Combine(gau_urls, urlfinder_urls) :
          /\ all_urls' = BagOf(merged)
          /\ IF merged = <<>>
             THEN success' = FALSE /\ exit_code' = ExitCode(FALSE) /\ pc' = "done"
             ELSE UNCHANGED <<success, exit_code>> /\ pc' = "extract"
    /\ UNCHANGED <<argVars, gau_urls, urlfinder_urls, gau_status, urlfinder_status,
                   paths, save_status, file, log, arg, ret>>

\* step 3, second half: extract the paths from all_urls, in the order the
\* list has; return False when there is none
ExtractStep ==
    /\ pc = "extract"
    /\ \E merged \in ListsOf(all_urls) :
          LET extracted == extract_paths(merged)
          IN  /\ paths' = extracted
              /\ IF extracted = {}
                 THEN success' = FALSE /\ exit_code' = ExitCode(FALSE) /\ pc' = "done"
                 ELSE UNCHANGED <<success, exit_code>> /\ pc' = "save"
    /\ UNCHANGED <<argVars, gau_urls, urlfinder_urls, gau_status, urlfinder_status,
                   all_urls, save_status, file, log, arg, ret>>

\* a plausible slip: build_dictionary returns True whatever save_dictionary returned
SaveStepIgnoresResult ==
    /\ pc = "save"
    /\ \E words \in Orders(paths) : \E o \in SaveOutcomes(words) :
          /\ file' = save_dictionary(words, file, o).file
          /\ save_status' = o.kind
    /\ success' = TRUE
    /\ exit_code' = ExitCode(TRUE)
    /\ log' = Append(log, "open")
    /\ pc' = "done"
    /\ UNCHANGED <<argVars, gau_urls, urlfinder_urls, gau_status, urlfinder_status,
                   all_urls, paths, arg, ret>>

\* return self.save_dictionary(paths, output_file), the set being iterated
\* in some order, and main's exit
SaveStep ==
    /\ pc = "save"
    /\ \E words \in Orders(paths) : \E o \in SaveOutcomes(words) :
          LET saved == save_dictionary(words, file, o)
          IN   /\ file' = saved.file
              /\ success' = saved.ret
              /\ exit_code' = ExitCode(saved.ret)
              /\ save_status' = o.kind
    /\ log' = Append(log, "open")
    /\ pc' = "done"
    /\ UNCHANGED <<argVars, gau_urls, urlfinder_urls, gau_status, urlfinder_status,
                   all_urls, paths, arg, ret>>

Next == Main \/ GauStep \/ UrlfinderStep \/ CombineStep \/ ExtractStep \/ SaveStep

Spec == Init /\ [][Next]_vars

(***************************************************************************)
(* extract_paths applied to a list of URLs.                                *)
(***************************************************************************)
InitExtract ==
    /\ pc = "extract_call"
    /\ arg \in Lists(ExtractUrls, MaxUrls)
    /\ ret = {}
    /\ no_gau = FALSE /\ no_urlfinder = FALSE
    /\ file0 = Absent /\ file = Absent
    /\ BuildIdle

ExtractCall ==
    /\ pc = "extract_call"
    /\ ret' = extract_paths(arg)
    /\ pc' = "extract_ret"
    /\ UNCHANGED <<argVars, buildVars, exit_code, file, log, arg>>

NextExtract == ExtractCall

SpecExtract == InitExtract /\ [][NextExtract]_vars

(***************************************************************************)
(* save_dictionary applied to a list of words and a destination.           *)
(***************************************************************************)
InitSave ==
    /\ pc = "save_call"
    /\ arg \in Lists(SaveWords, MaxWords)
    /\ ret = FALSE
    /\ no_gau = FALSE /\ no_urlfinder = FALSE
    /\ file0 \in OldFiles /\ file = file0
    /\ BuildIdle

SaveCall ==
    /\ pc = "save_call"
    /\ \E o \in SaveOutcomes(arg) :
          /\ file' = save_dictionary(arg, file, o).file
          /\ ret' = save_dictionary(arg, file, o).ret
          /\ save_status' = o.kind
    /\ pc' = "save_ret"
    /\ UNCHANGED <<argVars, gau_urls, urlfinder_urls, gau_status, urlfinder_status,
                   all_urls, paths, success, exit_code, log, arg>>

NextSave == SaveCall

SpecSave == InitSave /\ [][NextSave]_vars

(***************************************************************************)
(* Vocabulary of the properties.                                           *)
(***************************************************************************)
\* the merged URLs as a set
MergedSet == Range(gau_urls) \cup Range(urlfinder_urls)

\* build_dictionary has returned
Returned == pc = "done" /\ exit_code \in {0, 1}

\* a file-like segment whose extension is in the Extension Filter Table
FilteredFile(w) == Contains(w, ".") /\ Extension(w) \in filtered_extensions

\* the url is one the Path Segmenter takes and can parse
Parsed(url) ==
    /\ StartsWith(url, HttpPrefix) \/ StartsWith(url, HttpsPrefix)
    /\ ~UrlParseRaises(url)

\* the non-empty components of the url's path, in order
Components(url) == IF Parsed(url) THEN PathParts(UrlPath(url)) ELSE <<>>

\* some segment of the url is kept by the Segment Filter
Survives(url) == \E w \in Range(Components(url)) : ~FilteredFile(w)

\* the file read back and split by line: each line ends at a "\n"
ReadLines(content) ==
    IF content = <<>> THEN <<>>
    ELSE IF content[Len(content)] = "\n"
    THEN Split(SubSeq(content, 1, Len(content) - 1), "\n")
    ELSE Split(content, "\n")

\* the dictionary file of a set of words
Dictionary(S) == Written(Sorted(S))

\* C1: when build_dictionary has returned, it returned False exactly when
\* the merged URL set is empty, or the extracted segment set is empty, or
\* the write failed, and True otherwise; the exit status is 0 exactly when
\* it returned True.
C1_Verdict ==
    Returned =>
        /\ success = FALSE <=>
              \/ MergedSet = {}
              \/ paths = {}
              \/ save_status \in {"open_error", "write_error"}
        /\ success = TRUE <=>
              /\ MergedSet # {}
              /\ paths # {}
              /\ save_status = "ok"
        /\ exit_code = 0 <=> success = TRUE
        /\ exit_code # -1

\* C1 witness: URLs and segments were found and the write failed
C1_Witness ==
    /\ Returned /\ MergedSet # {} /\ paths # {}
    /\ save_status = "write_error" /\ success = FALSE /\ exit_code = 1

\* C2: no string returned by extract_paths is a file-like segment whose
\* extension, lower-cased, is in the Extension Filter Table, at whatever
\* position of the path the segment stood.
C2_NoFilteredSegment ==
    pc = "extract_ret" => \A w \in ret : ~FilteredFile(w)

C4_RoundTrip ==
    (pc = "save_ret" /\ ret = TRUE) =>
        /\ file # Absent
        /\ Range(ReadLines(file)) = Range(arg)
        /\ \A i \in 1..Len(ReadLines(file)) : ReadLines(file)[i] # <<>>
        /\ \A i \in 1..(Len(ReadLines(file)) - 1) :
              StrLess(ReadLines(file)[i], ReadLines(file)[i + 1])
        /\ Len(ReadLines(file)) = Cardinality(Range(arg))
        /\ file = Written(ReadLines(file))

\* C4 witness: a list with a repeated word saved over an existing file
C4_Witness ==
    /\ pc = "save_ret" /\ ret = TRUE
    /\ file0 # Absent
    /\ Len(arg) > Cardinality(Range(arg))
    /\ Cardinality(Range(arg)) >= 2

\* C5: when both sources contributed empty lists, the destination is as it
\* was before the run and was never opened, and at the end the build has
\* failed with a non-zero exit status.
C5_EmptyInputLeavesFile ==
    (pc \in {"combine", "extract", "save", "done"} /\ gau_urls = <<>> /\ urlfinder_urls = <<>>) =>
        /\ file = file0
        /\ "open" \notin Range(log)
        /\ pc = "done" => (success = FALSE /\ exit_code \notin {0, -1})
        /\ pc # "save"

\* C5 witness: GAU missing, URLFinder returning nothing, an existing file
C5_Witness ==
    /\ Returned
    /\ gau_status = "notfound" /\ urlfinder_status = "ok"
    /\ gau_urls = <<>> /\ urlfinder_urls = <<>>
    /\ file0 # Absent /\ file = file0 /\ exit_code = 1

\* C6: when the merged URL set is not empty and the Segment Filter drops
\* every segment of every merged URL, the build fails, exits non-zero and
\* writes no dictionary.
C6_EmptyOutputFails ==
    (Returned /\ MergedSet # {} /\ \A u \in MergedSet : ~Survives(u)) =>
        /\ success = FALSE
        /\ exit_code # 0
        /\ file = file0

\* C7: a source that failed contributed the empty list; if the other
\* source returned a URL with a surviving segment, the dictionary is
\* written, and if the write succeeds the build succeeds and the file is
\* the dictionary of the other source's URLs alone.
C7_SourceFailureAbsorbed ==
    /\ gau_status \in FailureKinds => gau_urls = <<>>
    /\ urlfinder_status \in FailureKinds => urlfinder_urls = <<>>
    /\ (Returned /\ gau_status \in FailureKinds
          /\ \E u \in Range(urlfinder_urls) : Survives(u)) =>
            /\ save_status # "none"
            /\ save_status = "ok" =>
                  /\ success = TRUE /\ exit_code = 0
                  /\ file = Dictionary(extract_paths(urlfinder_urls))
    /\ (Returned /\ urlfinder_status \in FailureKinds
          /\ \E u \in Range(gau_urls) : Survives(u)) =>
            /\ save_status # "none"
            /\ save_status = "ok" =>
                  /\ success = TRUE /\ exit_code = 0
                  /\ file = Dictionary(extract_paths(gau_urls))

\* C7 witness: GAU ended with a non-zero return code and the build succeeded
C7_Witness ==
    /\ Returned
    /\ gau_status = "nonzero"
    /\ urlfinder_status = "ok"
    /\ success = TRUE /\ exit_code = 0

\* C8: the set extract_paths returns for a list is the union of the sets it
\* returns for each URL alone, and a URL that is not http(s) or that does
\* not parse contributes nothing.
C8_PerUrl ==
    pc = "extract_ret" =>
        /\ ret = UNION {extract_paths(<<arg[i]>>) : i \in 1..Len(arg)}
        /\ \A i \in 1..Len(arg) : ~Parsed(arg[i]) => extract_paths(<<arg[i]>>) = {}

\* C8 witness: a URL that does not parse, followed by one that yields segments
C8_Witness ==
    /\ pc = "extract_ret"
    /\ Len(arg) = 2
    /\ StartsWith(arg[1], HttpPrefix) /\ UrlParseRaises(arg[1])
    /\ Parsed(arg[2])
    /\ ret # {}

\* C9: once combined, all_urls holds each string of either source list
\* exactly once and no other, so no more than the two lists together; the
\* paths, and the dictionary when it is written, depend on the set of
\* URLs only.
C9_Merge ==
    /\ pc \in {"extract", "save"} \/ Returned =>
          /\ DOMAIN all_urls = MergedSet
          /\ \A u \in DOMAIN all_urls : all_urls[u] = 1
          /\ BagSize(all_urls) <= Len(gau_urls) + Len(urlfinder_urls)
    /\ pc = "save" \/ Returned =>
          paths = UNION {extract_paths(<<u>>) : u \in MergedSet}
    /\ Returned /\ success = TRUE =>
          file = Dictionary(UNION {extract_paths(<<u>>) : u \in MergedSet})

\* C9 witness: the sources return [x-url] and [x-url, y-url]: 2 merged
\* URLs, and a dictionary of x and y
C9_Witness ==
    /\ Returned /\ success = TRUE
    /\ gau_urls = <<UrlX>>
    /\ urlfinder_urls = <<UrlX, UrlY>>
    /\ BagSize(all_urls) = 2
    /\ ReadLines(file) = << <<"x">>, <<"y">> >>

\* the positions of an event in the log
At(e) == {i \in 1..Len(log) : log[i] = e}

\* C10: the destination is opened at most once, after every source that is
\* not skipped has returned, GAU before URLFinder, and after the merged
\* URLs and the paths were found non-empty; a skipped source is never run.
C10_Order ==
    /\ Cardinality(At("open")) <= 1
    /\ Cardinality(At("gau")) <= 1
    /\ Cardinality(At("urlfinder")) <= 1
    /\ no_gau => At("gau") = {}
    /\ no_urlfinder => At("urlfinder") = {}
    /\ \A i \in At("gau") : \A j \in At("urlfinder") : i < j
    /\ \A k \in At("open") :
          /\ ~no_gau => \E i \in At("gau") : i < k
          /\ ~no_urlfinder => \E j \in At("urlfinder") : j < k
          /\ all_urls # <<>>
          /\ paths # {}

\* C10 witness: both sources ran and the destination was opened
C10_Witness ==
    /\ pc = "done"
    /\ log = <<"gau", "urlfinder", "open">>

====
